---- MODULE Spec2Model ----
(***************************************************************************)
(* Model of the bf interpreter.  The repository holds two generations of   *)
(* the front end:                                                          *)
(*   - src/main.rs: the binary.  parse builds a flat program whose loops   *)
(*     are LoopOpen(end)/LoopEnd(open) jump pairs; cancel and clearloop    *)
(*     rewrite that flat program; eval runs it on a 64-cell tape.          *)
(*   - src/lexer.rs, src/parser.rs, src/opt.rs: the scanner, the recursive *)
(*     descent parser building Loop(body) trees, and the two tree passes.  *)
(* impl says which of the two a behaviour runs.                            *)
(*                                                                         *)
(* Encoding.  A character is a one-character string.  A tree instruction   *)
(* is a record [op, body] (body is <<>> for a leaf); a flat instruction is *)
(* a record [op, target] (target is 0 for an instruction without one).     *)
(* Rust vectors are 0-indexed, TLA+ sequences 1-indexed: bf[i] of the code *)
(* is bf[i + 1] here.  A panic (index out of range, arithmetic overflow)   *)
(* is the outcome ok = FALSE / status = "panic".                           *)
(***************************************************************************)
EXTENDS Integers, Sequences, FiniteSets, TLC

(***************************************************************************)
(* impl             "main" (src/main.rs) or "tree" (lexer, parser, opt)    *)
(* src              the source text (main.rs:195; Lexer::src, lexer.rs:15) *)
(* input            the bytes the reader holds (stdin, main.rs:204)        *)
(* overflow_checks  whether the build checks integer overflow: ptr -= 1 at *)
(*                  0 (main.rs:163) panics with the checks and wraps       *)
(*                  without them                                           *)
(* stage            where the run stands (see the state machine below)     *)
(* bf               the program: Vec<Instruction> (main.rs:197,            *)
(*                  parser.rs:31)                                          *)
(* lexer            the Lexer of the Parser (parser.rs:6; lexer.rs:13-22)  *)
(* err              the Error parsing returned (main.rs:42-45,             *)
(*                  parser.rs:10-13), NoError when none                    *)
(* hist             the optimizer passes applied, with argument and result *)
(* ev               the state of eval (main.rs:155-157) and its streams    *)
(* ref              the same for a run of the program as parsed            *)
(***************************************************************************)
VARIABLES impl, src, input, overflow_checks, stage, bf, lexer, err, hist, ev, ref

vars == <<impl, src, input, overflow_checks, stage, bf, lexer, err, hist, ev, ref>>

-----------------------------------------------------------------------------
(* Bounds of the model.                                                    *)

\* Longest source text of the general specification.
MaxSrcLen == 3
\* Longest source text of the parsing specification.
MaxParseLen == 5
\* Longest source text of the optimizer specification.
MaxOptLen == 5
\* Number of optimizer passes applied to one tree.
MaxPasses == 2
\* Longest source text of the equivalence specification.
MaxEquivLen == 5
\* Longest run of one character in the wraparound specification.
MaxRun == 257
\* Bytes the output sink is observed for.
MaxOut == 3
\* Bytes the input source holds at most.
MaxInput == 1
\* Longest source text of the input/output specification.
MaxIOLen == 4
\* Longest source text of the cancellation specification.
MaxCancelLen == 6
\* Longest run of `>` and longest text after it in the pointer specification.
MaxPtrRun == 64
MaxPtrTail == 2

\* The tape: [0u8; 64].
TapeLen == 64
\* u8 arithmetic is modulo 2^8.
ByteMod == 256

-----------------------------------------------------------------------------
(* Source alphabets.                                                       *)

SymbolChars == {">", "<", "+", "-", ".", ",", "[", "]"}
LeafChars == {">", "<", "+", "-", ".", ","}
\* "\n" and "x" stand for the two kinds of skipped character.
Chars == SymbolChars \cup {"\n", "x"}

SeqsUpTo(S, n) == UNION {[1..k -> S] : k \in 0..n}

\* Sources of the parsing specification: two leaves, the brackets, a newline.
ParseChars == {"+", ".", "[", "]", "\n"}
\* Sources of the optimizer specification: no input is involved.
OptChars == {">", "<", "+", "-", ".", "[", "]"}
\* Sources of the equivalence specification.
EquivChars == {"+", "-", "[", "]", "."}
\* Bytes an input source may hold.
InputBytes == {0, 65}
IOChars == {">", "+", ".", ",", "[", "]"}
PtrTailChars == {"<", "+", "."}

Contains(s, c) == \E k \in 1..Len(s) : s[k] = c
Run(c, n) == [k \in 1..n |-> c]

-----------------------------------------------------------------------------
(* src/lexer.rs                                                            *)

Token(c) ==
    CASE c = ">" -> "Gt"
      [] c = "<" -> "Lt"
      [] c = "+" -> "Plus"
      [] c = "-" -> "Minus"
      [] c = "." -> "Dot"
      [] c = "," -> "Comma"
      [] c = "[" -> "LSquare"
      [] c = "]" -> "RSquare"

Lexer_new == [current |-> 0, line |-> 1, col |-> 1]

\* consume that stops one character short of the end of the source.
Lexer_consume_short(s, lx) ==
    IF lx.current + 1 < Len(s)
    THEN [some |-> TRUE, c |-> s[lx.current + 1],
          lx |-> [lx EXCEPT !.current = @ + 1, !.col = @ + 1]]
    ELSE [some |-> FALSE, c |-> "", lx |-> lx]

\* consume: the character at index current, if any, and the advanced lexer.
Lexer_consume(s, lx) ==
    IF lx.current < Len(s)
    THEN [some |-> TRUE, c |-> s[lx.current + 1],
          lx |-> [lx EXCEPT !.current = @ + 1, !.col = @ + 1]]
    ELSE [some |-> FALSE, c |-> "", lx |-> lx]

RECURSIVE Lexer_next(_, _)
\* next: the next token ("None" at the end of the source) and the lexer after.
Lexer_next(s, lx) ==
    LET r == Lexer_consume(s, lx) IN
    IF ~r.some THEN [tok |-> "None", lx |-> r.lx]
    ELSE IF r.c \in SymbolChars THEN [tok |-> Token(r.c), lx |-> r.lx]
    ELSE IF r.c = "\n"
         THEN Lexer_next(s, [r.lx EXCEPT !.line = @ + 1, !.col = 1])
         ELSE Lexer_next(s, r.lx)

-----------------------------------------------------------------------------
(* src/parser.rs                                                           *)

Leaf(o) == [op |-> o, body |-> <<>>]
Loop(b) == [op |-> "Loop", body |-> b]

\* The match arms shared by parse and parse_loop for the six simple tokens.
TokenInstr(t) ==
    CASE t = "Gt" -> Leaf("IncPtr")
      [] t = "Lt" -> Leaf("DecPtr")
      [] t = "Plus" -> Leaf("IncVal")
      [] t = "Minus" -> Leaf("DecVal")
      [] t = "Dot" -> Leaf("Write")
      [] t = "Comma" -> Leaf("Read")

RECURSIVE parse_loop_from(_, _, _)
\* The while loop of parse_loop with bf collected so far.
parse_loop_from(s, lx, acc) ==
    LET n == Lexer_next(s, lx) IN
    IF n.tok = "None" THEN [err |-> "MissingLoopEnd", bf |-> <<>>, lx |-> n.lx]
    ELSE IF n.tok = "RSquare" THEN [err |-> "None", bf |-> acc, lx |-> n.lx]
    ELSE IF n.tok = "LSquare"
         THEN LET r == parse_loop_from(s, n.lx, <<>>) IN
              IF r.err # "None" THEN r
              ELSE parse_loop_from(s, r.lx, Append(acc, Loop(r.bf)))
         ELSE parse_loop_from(s, n.lx, Append(acc, TokenInstr(n.tok)))

\* parse_loop with the end-of-source exit of parse: Ok instead of the error.
Parser_parse_loop_ok_at_end(s, lx) ==
    LET r == parse_loop_from(s, lx, <<>>) IN
    IF r.err = "MissingLoopEnd" THEN [err |-> "None", bf |-> <<>>, lx |-> r.lx] ELSE r

Parser_parse_loop(s, lx) == parse_loop_from(s, lx, <<>>)

RECURSIVE parse_top_from(_, _, _)
\* The while loop of Parser::parse with bf collected so far.
parse_top_from(s, lx, acc) ==
    LET n == Lexer_next(s, lx) IN
    IF n.tok = "None" THEN [err |-> "None", bf |-> acc, lx |-> n.lx]
    ELSE IF n.tok = "RSquare" THEN [err |-> "MissingLoopOpen", bf |-> <<>>, lx |-> n.lx]
    ELSE IF n.tok = "LSquare"
         THEN LET r == Parser_parse_loop(s, n.lx) IN
              IF r.err # "None" THEN r
              ELSE parse_top_from(s, r.lx, Append(acc, Loop(r.bf)))
         ELSE parse_top_from(s, n.lx, Append(acc, TokenInstr(n.tok)))

\* parse with the RSquare arm of parse_loop: a `]` at top level returns Ok.
Parser_parse_as_loop(s) ==
    LET r == parse_loop_from(s, Lexer_new, <<>>) IN
    IF r.err = "MissingLoopEnd" THEN parse_top_from(s, Lexer_new, <<>>) ELSE r

Parser_parse(s) == parse_top_from(s, Lexer_new, <<>>)

-----------------------------------------------------------------------------
(* src/opt.rs                                                              *)

\* The arms with (DecVal, DecVal) for (DecVal, IncVal).
InversePair_typo(l, r) ==
    \/ l = "IncPtr" /\ r = "DecPtr"
    \/ l = "DecPtr" /\ r = "IncPtr"
    \/ l = "IncVal" /\ r = "DecVal"
    \/ l = "DecVal" /\ r = "DecVal"

\* The four arms (IncPtr, DecPtr) | (DecPtr, IncPtr) | (IncVal, DecVal) |
\* (DecVal, IncVal) of the match on (l, r).
InversePair(l, r) ==
    \/ l = "IncPtr" /\ r = "DecPtr"
    \/ l = "DecPtr" /\ r = "IncPtr"
    \/ l = "IncVal" /\ r = "DecVal"
    \/ l = "DecVal" /\ r = "IncVal"

\* Vec::remove(i), i 0-indexed and in range.
Remove(v, i) == [k \in 1..(Len(v) - 1) |-> IF k <= i THEN v[k] ELSE v[k + 1]]

Panicked == [ok |-> FALSE, bf |-> <<>>]

RECURSIVE opt_cancel(_)
RECURSIVE opt_cancel_while(_, _)
\* The while i > 0 loop of cancel, at index i of the vector v.
opt_cancel_while(v, i) ==
    IF i <= 0 THEN [ok |-> TRUE, bf |-> v]
    ELSE IF i >= Len(v) THEN Panicked
    ELSE IF v[i + 1].op = "Loop"
         THEN LET r == opt_cancel(v[i + 1].body) IN
              IF ~r.ok THEN Panicked
              ELSE opt_cancel_while([v EXCEPT ![i + 1] = Loop(r.bf)], i - 1)
         ELSE IF InversePair(v[i].op, v[i + 1].op)
              THEN opt_cancel_while(Remove(Remove(v, i), i - 1), i)
              ELSE opt_cancel_while(v, i - 1)

\* cancel: bf.len() - 1 on the empty vector overflows (a panic with overflow
\* checks; without them i wraps to usize::MAX and bf[i] panics).
opt_cancel(v) ==
    IF Len(v) = 0 THEN Panicked ELSE opt_cancel_while(v, Len(v) - 1)

\* clearloop without the recursion into the loops it keeps.
opt_clearloop_flat(v) ==
    [k \in 1..Len(v) |->
        IF v[k].op = "Loop"
           /\ (v[k].body = <<Leaf("IncVal")>> \/ v[k].body = <<Leaf("DecVal")>>)
        THEN Leaf("ClearVal")
        ELSE v[k]]

RECURSIVE opt_clearloop_eager(_)
\* clearloop that takes [ClearVal] for a clear-loop body as well.
opt_clearloop_eager(v) ==
    [k \in 1..Len(v) |->
        IF v[k].op = "Loop"
        THEN IF v[k].body \in {<<Leaf("IncVal")>>, <<Leaf("DecVal")>>, <<Leaf("ClearVal")>>}
             THEN Leaf("ClearVal")
             ELSE Loop(opt_clearloop_eager(v[k].body))
        ELSE v[k]]

RECURSIVE opt_clearloop(_)
\* clearloop: for x in bf, rewriting x in place.
opt_clearloop(v) ==
    [k \in 1..Len(v) |->
        IF v[k].op = "Loop"
        THEN IF v[k].body = <<Leaf("IncVal")>> \/ v[k].body = <<Leaf("DecVal")>>
             THEN Leaf("ClearVal")
             ELSE Loop(opt_clearloop(v[k].body))
        ELSE v[k]]

-----------------------------------------------------------------------------
(* src/main.rs: parse                                                      *)

Instr(o) == [op |-> o, target |-> 0]
LoopOpen(t) == [op |-> "LoopOpen", target |-> t]
LoopEnd(t) == [op |-> "LoopEnd", target |-> t]

\* The match arms of parse for the six simple characters.
CharInstr(c) ==
    CASE c = ">" -> Instr("IncPtr")
      [] c = "<" -> Instr("DecPtr")
      [] c = "+" -> Instr("IncVal")
      [] c = "-" -> Instr("DecVal")
      [] c = "." -> Instr("Write")
      [] c = "," -> Instr("Read")

IsLeafChar(c) == c \in LeafChars

\* The least element of a non-empty set of numbers.
Least(S) == CHOOSE j \in S : \A m \in S : j <= m

\* The first index from k on (1-indexed) that holds a bracket, Len(s) + 1 when
\* there is none.
NextBracket(s, k) ==
    LET B == {j \in k..Len(s) : s[j] \in {"[", "]"}} IN
    IF B = {} THEN Len(s) + 1 ELSE Least(B)

\* What the for loop pushes for the characters k .. j - 1 when none of them is
\* a bracket: one instruction per simple symbol, nothing for any other
\* character (_ => continue).
PushLeaves(s, k, j) ==
    LET t == SelectSeq(SubSeq(s, k, j - 1), IsLeafChar) IN
    [m \in 1..Len(t) |-> CharInstr(t[m])]

\* The `]` arm without the assignment to bf[open_idx].
close_loop_unpatched(acc, open_idx) == Append(acc, LoopEnd(open_idx))

\* The `]` arm with a loop open at open_idx: bf[open_idx] = LoopOpen(idx) and
\* the LoopEnd(open_idx) that is pushed, idx being bf.len().
close_loop(acc, open_idx) ==
    Append([acc EXCEPT ![open_idx + 1] = LoopOpen(Len(acc))], LoopEnd(open_idx))

RECURSIVE parse_from(_, _, _, _)
\* The for loop of parse from character k (1-indexed) on, with bf and stack
\* as collected so far; idx is always bf.len().  The turns of the loop up to
\* the next bracket are taken together.
parse_from(s, k, acc, stack) ==
    LET idx == Len(acc) IN
    IF k > Len(s)
    THEN IF stack # <<>>
         THEN [err |-> "MissingLoopEnd", arg |-> Len(stack), bf |-> <<>>]
         ELSE [err |-> "None", arg |-> 0, bf |-> acc]
    ELSE LET c == s[k] IN
         IF c = "[" THEN parse_from(s, k + 1, Append(acc, LoopOpen(0)), Append(stack, idx))
         ELSE IF c = "]"
              THEN IF stack = <<>>
                   THEN [err |-> "MissingLoopOpen", arg |-> idx, bf |-> <<>>]
                   ELSE LET open_idx == stack[Len(stack)] IN
                        parse_from(s, k + 1, close_loop(acc, open_idx),
                                   SubSeq(stack, 1, Len(stack) - 1))
              ELSE LET j == NextBracket(s, k) IN
                   parse_from(s, j, acc \o PushLeaves(s, k, j), stack)

parse(s) == parse_from(s, 1, <<>>, <<>>)

-----------------------------------------------------------------------------
(* src/main.rs: cancel, clearloop                                          *)

RECURSIVE cancel_while(_, _)
\* The while i + 1 < bf.len() loop of cancel: i += 1 up to the first index
\* whose pair (bf[i], bf[i + 1]) matches, the two removals, and on from the
\* same i.
cancel_while(v, i) ==
    LET P == {j \in i..(Len(v) - 2) : InversePair(v[j + 1].op, v[j + 2].op)} IN
    IF P = {} THEN v
    ELSE LET j == Least(P) IN cancel_while(Remove(Remove(v, j + 1), j), j)

cancel(v) == cancel_while(v, 0)

\* The arms (LoopOpen(_), IncVal, LoopEnd(_)) | (LoopOpen(_), DecVal, LoopEnd(_)).
ClearTriple(a, b, c) ==
    a.op = "LoopOpen" /\ b.op \in {"IncVal", "DecVal"} /\ c.op = "LoopEnd"

RECURSIVE clearloop_while(_, _)
\* The while i + 2 < bf.len() loop of clearloop: i += 1 up to the first index
\* whose triple matches, the rewrite, and on from the same i.
clearloop_while(v, i) ==
    LET P == {j \in i..(Len(v) - 3) : ClearTriple(v[j + 1], v[j + 2], v[j + 3])} IN
    IF P = {} THEN v
    ELSE LET j == Least(P) IN
         clearloop_while(
             Remove(Remove([v EXCEPT ![j + 1] = Instr("ClearVal")], j + 2), j + 1), j)

clearloop(v) == clearloop_while(v, 0)

-----------------------------------------------------------------------------
(* src/main.rs: eval                                                       *)

\* The evaluator before its first instruction: tape, ptr and pc of lines
\* 155-157; out is what the writer has taken, nread the bytes taken from the
\* reader.  ptr is a usize: a value below 0 stands for the wrapped value
\* 2^64 + ptr that a build without overflow checks computes.  inb records
\* that ptr has been a cell of the tape after every instruction so far.
eval_new ==
    [tape |-> [c \in 0..(TapeLen - 1) |-> 0], ptr |-> 0, pc |-> 0,
     out |-> <<>>, nread |-> 0, status |-> "idle", inb |-> TRUE]

InTape(p) == 0 <= p /\ p < TapeLen

\* saturating_add in place of wrapping_add.
saturating_add(x) == IF x + 1 >= ByteMod THEN ByteMod - 1 ELSE x + 1

wrapping_add(x) == (x + 1) % ByteMod
wrapping_sub(x) == (x + ByteMod - 1) % ByteMod

Panic(e) == [e EXCEPT !.status = "panic"]
IoError(e) == [e EXCEPT !.status = "io_error"]
Advance(e) ==
    [e EXCEPT !.pc = @ + 1, !.status = "running", !.inb = @ /\ InTape(e.ptr)]

\* The Write arm with tape[0..=0] for the slice that is written.
eval_Write_first(e) ==
    IF ~InTape(e.ptr) THEN Panic(e)
    ELSE Advance([e EXCEPT !.out = Append(@, e.tape[0])])

\* The Write arm when the writer takes the byte: wtr.write(&tape[ptr..=ptr])
\* returns Ok.  The writer is io::stdout(), whose write of a one-byte buffer
\* answers Ok(1) or Err, so the count that eval drops is always 1.
eval_Write(e) ==
    IF ~InTape(e.ptr) THEN Panic(e)
    ELSE Advance([e EXCEPT !.out = Append(@, e.tape[e.ptr])])

\* The Write arm when the writer returns Err: `?` returns it from eval.  The
\* slice tape[ptr..=ptr] is taken before the call.
eval_Write_err(e) ==
    IF ~InTape(e.ptr) THEN Panic(e) ELSE IoError(e)

\* The Read arm with the end of the input read as the byte 0.
eval_Read_zero(e, inp) ==
    IF ~InTape(e.ptr) THEN Panic(e)
    ELSE IF e.nread >= Len(inp) THEN Advance([e EXCEPT !.tape[e.ptr] = 0])
    ELSE Advance([e EXCEPT !.tape[e.ptr] = inp[e.nread + 1], !.nread = @ + 1])

\* The Read arm: read_exact fails at the end of the input; the byte is taken
\* before tape[ptr] is indexed.
eval_Read(e, inp) ==
    IF e.nread >= Len(inp) THEN IoError(e)
    ELSE IF ~InTape(e.ptr) THEN Panic([e EXCEPT !.nread = @ + 1])
    ELSE Advance([e EXCEPT !.tape[e.ptr] = inp[e.nread + 1], !.nread = @ + 1])

\* The LoopOpen(end) arm without the test of the cell: the body is entered
\* whatever the cell holds.
eval_LoopOpen_dowhile(i, e) ==
    IF ~InTape(e.ptr) THEN Panic(e) ELSE Advance(e)

\* The LoopOpen(end) arm.
eval_LoopOpen(i, e) ==
    IF ~InTape(e.ptr) THEN Panic(e)
    ELSE IF e.tape[e.ptr] = 0 THEN Advance([e EXCEPT !.pc = i.target])
    ELSE Advance(e)

\* The LoopEnd(open) arm with the test of the cell inverted.
eval_LoopEnd_inverted(i, e) ==
    IF ~InTape(e.ptr) THEN Panic(e)
    ELSE IF e.tape[e.ptr] = 0 THEN Advance([e EXCEPT !.pc = i.target])
    ELSE Advance(e)

\* The LoopEnd(open) arm.
eval_LoopEnd(i, e) ==
    IF ~InTape(e.ptr) THEN Panic(e)
    ELSE IF e.tape[e.ptr] # 0 THEN Advance([e EXCEPT !.pc = i.target])
    ELSE Advance(e)

\* The IncPtr arm with a check of the tape's end at the move.
eval_IncPtr_checked(e) ==
    IF e.ptr + 1 >= TapeLen THEN Panic(e)
    ELSE Advance([e EXCEPT !.ptr = @ + 1])

\* The IncPtr arm: ptr += 1 (2^64 is out of reach).
eval_IncPtr(e) == Advance([e EXCEPT !.ptr = @ + 1])

\* The DecPtr arm: ptr -= 1 at 0 panics in a build with overflow checks and
\* wraps in one without.
eval_DecPtr(e, oc) ==
    IF e.ptr = 0 /\ oc THEN Panic(e)
    ELSE Advance([e EXCEPT !.ptr = @ - 1])

\* The IncVal, DecVal and ClearVal arms: tape[ptr] = f(tape[ptr]).
eval_IncVal(e) ==
    IF ~InTape(e.ptr) THEN Panic(e)
    ELSE Advance([e EXCEPT !.tape[e.ptr] = wrapping_add(@)])

eval_DecVal(e) ==
    IF ~InTape(e.ptr) THEN Panic(e)
    ELSE Advance([e EXCEPT !.tape[e.ptr] = wrapping_sub(@)])

eval_ClearVal(e) ==
    IF ~InTape(e.ptr) THEN Panic(e)
    ELSE Advance([e EXCEPT !.tape[e.ptr] = 0])

\* The match on instr and the pc += 1 after it.  inp is the reader's byte
\* sequence, oc tells whether the build checks integer overflow.
exec_instr(i, e, inp, oc) ==
    CASE i.op = "IncPtr" -> eval_IncPtr(e)
      [] i.op = "DecPtr" -> eval_DecPtr(e, oc)
      [] i.op = "IncVal" -> eval_IncVal(e)
      [] i.op = "DecVal" -> eval_DecVal(e)
      [] i.op = "ClearVal" -> eval_ClearVal(e)
      [] i.op = "Write" -> eval_Write(e)
      [] i.op = "Read" -> eval_Read(e, inp)
      [] i.op = "LoopOpen" -> eval_LoopOpen(i, e)
      [] i.op = "LoopEnd" -> eval_LoopEnd(i, e)

\* The loop with bf[pc] in place of bf.get(pc): a panic past the end.
eval_step_indexed(prog, e, inp, oc) ==
    IF ~(0 <= e.pc /\ e.pc < Len(prog)) THEN Panic(e)
    ELSE exec_instr(prog[e.pc + 1], e, inp, oc)

\* One turn of the while let Some(instr) = bf.get(pc) loop; Ok(()) when
\* bf.get(pc) is None.
eval_step(prog, e, inp, oc) ==
    IF ~(0 <= e.pc /\ e.pc < Len(prog)) THEN [e EXCEPT !.status = "done"]
    ELSE exec_instr(prog[e.pc + 1], e, inp, oc)

\* The next instruction is a Write (the step that grows the output).
AtWrite(prog, e) ==
    /\ 0 <= e.pc /\ e.pc < Len(prog)
    /\ prog[e.pc + 1].op = "Write"

-----------------------------------------------------------------------------
(* The state machine.                                                      *)
(* stage: "start", then "parsed" or "error"; the tree passes leave it      *)
(* "parsed" or end in "panic"; main goes on to "cancelled" and "eval".     *)
(* hist: the passes applied so far, each with the program it was given     *)
(* (before) and the program it left (bf).                                  *)
(* ev: the evaluator of main; ref: an evaluator run on the program as      *)
(* parsed, before any pass (the equivalence specification only).           *)

NoError == [kind |-> "None", arg |-> 0]

Halted(e) == e.status \in {"done", "io_error", "panic"}

\* What a behaviour starts from: a source text, an input source, a build.
\* A program without `,` never reads and one without `<` never decrements
\* the pointer, so one input and one build stand for all of them there.
InitWith(Impls, Sources) ==
    /\ impl \in Impls
    /\ src \in Sources
    /\ input \in SeqsUpTo(InputBytes, MaxInput)
    /\ (impl = "tree" \/ ~Contains(src, ",")) => input = <<>>
    /\ overflow_checks \in BOOLEAN
    /\ (impl = "tree" \/ ~Contains(src, "<")) => overflow_checks
    /\ stage = "start"
    /\ bf = <<>>
    /\ lexer = Lexer_new
    /\ err = NoError
    /\ hist = <<>>
    /\ ev = eval_new
    /\ ref = eval_new

Init == InitWith({"main", "tree"}, SeqsUpTo(Chars, MaxSrcLen))

\* parser.rs: Parser::new(Lexer::new(src)).parse()
ParserParse ==
    /\ impl = "tree" /\ stage = "start"
    /\ LET r == Parser_parse(src) IN
       /\ stage' = IF r.err = "None" THEN "parsed" ELSE "error"
       /\ bf' = r.bf
       /\ lexer' = r.lx
       /\ err' = [kind |-> r.err, arg |-> 0]
    /\ UNCHANGED <<impl, src, input, overflow_checks, hist, ev, ref>>

\* opt.rs: cancel(&mut bf)
OptCancel ==
    /\ impl = "tree" /\ stage = "parsed" /\ Len(hist) < MaxPasses
    /\ LET r == opt_cancel(bf) IN
       /\ stage' = IF r.ok THEN "parsed" ELSE "panic"
       /\ bf' = r.bf
       /\ hist' = Append(hist, [pass |-> "cancel", before |-> bf, ok |-> r.ok, bf |-> r.bf])
    /\ UNCHANGED <<impl, src, input, overflow_checks, lexer, err, ev, ref>>

\* opt.rs: clearloop(&mut bf)
OptClearloop ==
    /\ impl = "tree" /\ stage = "parsed" /\ Len(hist) < MaxPasses
    /\ bf' = opt_clearloop(bf)
    /\ hist' = Append(hist, [pass |-> "clearloop", before |-> bf, ok |-> TRUE, bf |-> bf'])
    /\ UNCHANGED <<impl, src, input, overflow_checks, stage, lexer, err, ev, ref>>

\* main.rs:197 parse(&src)
Parse ==
    /\ impl = "main" /\ stage = "start"
    /\ LET r == parse(src) IN
       /\ stage' = IF r.err = "None" THEN "parsed" ELSE "error"
       /\ bf' = r.bf
       /\ err' = [kind |-> r.err, arg |-> r.arg]
    /\ UNCHANGED <<impl, src, input, overflow_checks, lexer, hist, ev, ref>>

\* main.rs:201 cancel(&mut bf)
Cancel ==
    /\ impl = "main" /\ stage = "parsed"
    /\ stage' = "cancelled"
    /\ bf' = cancel(bf)
    /\ hist' = Append(hist, [pass |-> "cancel", before |-> bf, ok |-> TRUE, bf |-> bf'])
    /\ UNCHANGED <<impl, src, input, overflow_checks, lexer, err, ev, ref>>

\* main.rs:202 clearloop(&mut bf)
Clearloop ==
    /\ impl = "main" /\ stage = "cancelled"
    /\ stage' = "eval"
    /\ bf' = clearloop(bf)
    /\ hist' = Append(hist, [pass |-> "clearloop", before |-> bf, ok |-> TRUE, bf |-> bf'])
    /\ UNCHANGED <<impl, src, input, overflow_checks, lexer, err, ev, ref>>

\* main.rs:204 eval(&bf, stdin, stdout), one turn of its loop.
Eval ==
    /\ impl = "main" /\ stage = "eval" /\ ~Halted(ev)
    /\ AtWrite(bf, ev) => Len(ev.out) < MaxOut
    /\ ev' = eval_step(bf, ev, input, overflow_checks)
    /\ UNCHANGED <<impl, src, input, overflow_checks, stage, bf, lexer, err, hist, ref>>

\* eval on the program as parsed, before the passes: one turn of its loop.
RefEval ==
    /\ impl = "main" /\ stage = "parsed" /\ ~Halted(ref)
    /\ AtWrite(bf, ref) => Len(ref.out) < MaxOut
    /\ ref' = eval_step(bf, ref, input, overflow_checks)
    /\ UNCHANGED <<impl, src, input, overflow_checks, stage, bf, lexer, err, hist, ev>>

Next ==
    \/ ParserParse
    \/ OptCancel
    \/ OptClearloop
    \/ Parse
    \/ Cancel
    \/ Clearloop
    \/ Eval

Spec == Init /\ [][Next]_vars

\* The tree front end and its two passes, on sources without input.
InitOpt == InitWith({"tree"}, SeqsUpTo(OptChars, MaxOptLen))

NextOpt ==
    \/ ParserParse
    \/ OptCancel
    \/ OptClearloop

SpecOpt == InitOpt /\ [][NextOpt]_vars

\* The two parsers, on longer sources over fewer characters.
InitParse == InitWith({"main", "tree"}, SeqsUpTo(ParseChars, MaxParseLen))

NextParse ==
    \/ ParserParse
    \/ Parse

SpecParse == InitParse /\ [][NextParse]_vars

\* main with a reference run of the parsed program before the passes.
InitEquiv == InitWith({"main"}, SeqsUpTo(EquivChars, MaxEquivLen))

NextEquiv ==
    \/ Parse
    \/ RefEval
    \/ (Halted(ref) /\ Cancel)
    \/ Clearloop
    \/ Eval

SpecEquiv == InitEquiv /\ [][NextEquiv]_vars

\* main on a run of `+` or of `-` followed by `.`.
InitWrap ==
    InitWith({"main"}, {Run(c, n) \o <<".">> : c \in {"+", "-"}, n \in 0..MaxRun})

NextWrap ==
    \/ Parse
    \/ Cancel
    \/ Clearloop
    \/ Eval

SpecWrap == InitWrap /\ [][NextWrap]_vars

-----------------------------------------------------------------------------
(* Vocabulary of the properties.                                           *)

\* Occurrences of the characters of C among the first k characters of s.
CountIn(s, k, C) == Cardinality({j \in 1..k : s[j] \in C})

\* Nesting depth after the first k characters: opens minus closes.
Depth(s, k) == CountIn(s, k, {"["}) - CountIn(s, k, {"]"})

\* Some `]` stands where no loop is open.
HasUnmatchedClose(s) == \E k \in 1..Len(s) : Depth(s, k) < 0

\* The position (1-indexed) of the first such `]`.
FirstUnmatchedClose(s) == Least({k \in 1..Len(s) : Depth(s, k) < 0})

WellNested(s) == ~HasUnmatchedClose(s) /\ Depth(s, Len(s)) = 0

\* The source ends inside a loop, every `]` before having matched.
EndsInsideLoop(s) == ~HasUnmatchedClose(s) /\ Depth(s, Len(s)) > 0

-----------------------------------------------------------------------------
(* C1: for a program that terminates and keeps the pointer on the tape,    *)
(* the run after cancel and clearloop ends normally and has written the    *)
(* same bytes as the run of the program as parsed.                         *)
C1_OptimizedRunEquivalent ==
    (impl = "main" /\ ref.status = "done" /\ ref.inb /\ Halted(ev))
        => (ev.status = "done" /\ ev.out = ref.out)

-----------------------------------------------------------------------------
(* Vocabulary of the tree properties.                                      *)

\* The four sources that are exactly one inverse pair.
PairSources == {<<">", "<">>, <<"<", ">">>, <<"+", "-">>, <<"-", "+">>}

RECURSIVE LeafCount(_)
\* Non-Loop instructions of a tree, over all depths.
LeafCount(v) ==
    IF v = <<>> THEN 0
    ELSE (IF Head(v).op = "Loop" THEN LeafCount(Head(v).body) ELSE 1)
         + LeafCount(Tail(v))

RECURSIVE LoopCount(_)
\* Loop nodes of a tree, over all depths.
LoopCount(v) ==
    IF v = <<>> THEN 0
    ELSE (IF Head(v).op = "Loop" THEN 1 + LoopCount(Head(v).body) ELSE 0)
         + LoopCount(Tail(v))

\* Instructions of a flat program whose op is in O.
FlatCount(v, O) == Cardinality({k \in 1..Len(v) : v[k].op \in O})

ClearBody(b) == b = <<Leaf("IncVal")>> \/ b = <<Leaf("DecVal")>>

RECURSIVE ClearRewrites(_, _)
\* w is v with exactly the Loop nodes of body [IncVal] or [DecVal] turned
\* into ClearVal, position by position and depth by depth.
ClearRewrites(v, w) ==
    /\ Len(w) = Len(v)
    /\ \A k \in 1..Len(v) :
          IF v[k].op = "Loop"
          THEN IF ClearBody(v[k].body)
               THEN w[k] = Leaf("ClearVal")
               ELSE w[k].op = "Loop" /\ ClearRewrites(v[k].body, w[k].body)
          ELSE w[k] = v[k]

RECURSIVE HasLoopOfClearVal(_)
\* Some Loop node, at any depth, has the body [ClearVal].
HasLoopOfClearVal(v) ==
    \E k \in 1..Len(v) :
        /\ v[k].op = "Loop"
        /\ (v[k].body = <<Leaf("ClearVal")>> \/ HasLoopOfClearVal(v[k].body))

\* The entries k and k + 1 of hist are two runs of the same pass.
Twice(k, p) == k + 1 <= Len(hist) /\ hist[k].pass = p /\ hist[k + 1].pass = p

-----------------------------------------------------------------------------
(* C2: cancel on a sequence that is exactly one inverse pair completes and *)
(* leaves the empty sequence.                                              *)
C2_PairCancelsToEmpty ==
    (impl = "tree" /\ src \in PairSources /\ hist # <<>> /\ hist[1].pass = "cancel")
        => (hist[1].ok /\ hist[1].bf = <<>>)

(* C3: cancellation is idempotent on every tree: a run of cancel completes *)
(* and a second run directly after it completes with the same tree.        *)
C3_CancelIdempotent ==
    impl = "tree" =>
        \A k \in 1..Len(hist) :
            hist[k].pass = "cancel" =>
                /\ hist[k].ok
                /\ Twice(k, "cancel") => (hist[k + 1].ok /\ hist[k + 1].bf = hist[k].bf)

\* Where the first run of cancel completes, a second run completes with the
\* same tree.
CancelIdempotentWhereDefined ==
    impl = "tree" =>
        \A k \in 1..Len(hist) :
            (Twice(k, "cancel") /\ hist[k].ok) =>
                (hist[k + 1].ok /\ hist[k + 1].bf = hist[k].bf)

-----------------------------------------------------------------------------
(* C4: a `]` where no loop is open makes parsing fail at once with the     *)
(* unmatched-close error, whatever follows it: the scanner has gone no     *)
(* further than that `]`, no program is returned, and evaluation never     *)
(* begins, so nothing is read or written.                                  *)
C4_UnmatchedCloseFails ==
    (stage # "start" /\ HasUnmatchedClose(src)) =>
        /\ stage = "error"
        /\ err.kind = "MissingLoopOpen"
        /\ bf = <<>>
        /\ ev = eval_new
        /\ impl = "tree" => lexer.current = FirstUnmatchedClose(src)
        /\ impl = "main" =>
              err.arg = CountIn(src, FirstUnmatchedClose(src) - 1, SymbolChars)

\* Parsing has failed on a `]` at top level that is followed by a `[`.
C4_Witness ==
    /\ impl = "tree" /\ stage = "error" /\ err.kind = "MissingLoopOpen"
    /\ HasUnmatchedClose(src)
    /\ \E k \in 1..Len(src) : k > FirstUnmatchedClose(src) /\ src[k] = "["

(* C5: a source that ends while some `[` is still open fails to parse with *)
(* the unmatched-open error, from whatever depth the end is met at; no     *)
(* program is returned and evaluation never begins.                        *)
C5_UnmatchedOpenFails ==
    (stage # "start" /\ EndsInsideLoop(src)) =>
        /\ stage = "error"
        /\ err.kind = "MissingLoopEnd"
        /\ bf = <<>>
        /\ ev = eval_new
        /\ impl = "main" => err.arg = Depth(src, Len(src))

\* Parsing has failed at the end of a source with two loops still open, the
\* first of them holding a complete loop as well.
C5_Witness ==
    /\ impl = "tree" /\ stage = "error" /\ err.kind = "MissingLoopEnd"
    /\ EndsInsideLoop(src) /\ Depth(src, Len(src)) >= 2
    /\ lexer.current = Len(src)

(* C6: a source with well nested brackets parses; the tree has as many     *)
(* leaf instructions, over all depths, as the source has simple symbols,   *)
(* and as many Loop nodes as the source has `[`.  (The flat program of     *)
(* main has one LoopOpen and one LoopEnd per `[`.)                         *)
C6_ParseCounts ==
    (stage # "start" /\ WellNested(src)) =>
        /\ stage # "error" /\ err = NoError
        /\ (impl = "tree" /\ hist = <<>>) =>
              /\ LeafCount(bf) = CountIn(src, Len(src), LeafChars)
              /\ LoopCount(bf) = CountIn(src, Len(src), {"["})
        /\ (impl = "main" /\ stage = "parsed") =>
              /\ FlatCount(bf, {"LoopOpen"}) = CountIn(src, Len(src), {"["})
              /\ FlatCount(bf, {"LoopEnd"}) = CountIn(src, Len(src), {"["})
              /\ Len(bf) = CountIn(src, Len(src), SymbolChars)

\* A parsed tree with a loop inside a loop and a leaf.
C6_Witness ==
    /\ impl = "tree" /\ stage = "parsed" /\ hist = <<>> /\ WellNested(src)
    /\ LoopCount(bf) = 2 /\ Len(bf) = 1 /\ LeafCount(bf) >= 1

(* C7: a source without any of the eight symbols parses to the empty       *)
(* program, and main runs that program to its normal end without reading   *)
(* or writing a byte.                                                      *)
C7_NoSymbolsNoEffect ==
    (stage # "start" /\ CountIn(src, Len(src), SymbolChars) = 0) =>
        /\ stage # "error" /\ err = NoError
        /\ (impl = "tree" /\ hist = <<>>) => (bf = <<>> /\ lexer.current = Len(src))
        /\ impl = "main" =>
              /\ bf = <<>>
              /\ ev.status \in {"idle", "done"}
              /\ ev.nread = 0 /\ ev.out = <<>>
              /\ (stage = "eval" /\ ev.status = "idle") => ENABLED Eval

\* main has run a source of skipped characters, a newline among them, to
\* the end.
C7_Witness ==
    /\ impl = "main" /\ stage = "eval" /\ ev.status = "done"
    /\ Len(src) >= 2 /\ CountIn(src, Len(src), SymbolChars) = 0
    /\ Contains(src, "\n")

-----------------------------------------------------------------------------
(* C8: clearloop turns a Loop node into ClearVal exactly when its body is  *)
(* [IncVal] or [DecVal]; every other Loop stays a Loop at its position and *)
(* has clearloop applied to its body; every other instruction is kept.     *)
C8_ClearloopExact ==
    impl = "tree" =>
        \A k \in 1..Len(hist) :
            hist[k].pass = "clearloop" => ClearRewrites(hist[k].before, hist[k].bf)

\* clearloop has rewritten a loop nested in a loop it kept.
C8_Witness ==
    /\ impl = "tree" /\ hist # <<>> /\ hist[1].pass = "clearloop"
    /\ hist[1].before = <<Loop(<<Loop(<<Leaf("DecVal")>>)>>)>>
    /\ hist[1].bf = <<Loop(<<Leaf("ClearVal")>>)>>

(* C9: clear-loop recognition is idempotent: a second run of clearloop     *)
(* directly after a first leaves the tree as the first left it.            *)
C9_ClearloopIdempotent ==
    impl = "tree" =>
        \A k \in 1..Len(hist) :
            Twice(k, "clearloop") => hist[k + 1].bf = hist[k].bf

\* clearloop has run twice, the first run having left a loop whose body is
\* [ClearVal].
C9_Witness ==
    /\ impl = "tree" /\ Twice(1, "clearloop")
    /\ HasLoopOfClearVal(hist[1].bf)
    /\ hist[1].bf # hist[1].before

\* main.rs clearloop, on the flat program: each LoopOpen, IncVal | DecVal,
\* LoopEnd triple becomes one ClearVal and nothing else changes in number.
FlatClearloopExact ==
    impl = "main" =>
        \A k \in 1..Len(hist) :
            hist[k].pass = "clearloop" =>
                LET v == hist[k].before
                    w == hist[k].bf
                    n == Cardinality({j \in 0..(Len(v) - 3) :
                                         ClearTriple(v[j + 1], v[j + 2], v[j + 3])})
                IN /\ Len(w) = Len(v) - 2 * n
                   /\ FlatCount(w, {"ClearVal"}) = n
                   /\ FlatCount(w, {"LoopOpen"}) = FlatCount(v, {"LoopOpen"}) - n
                   /\ FlatCount(w, {"LoopEnd"}) = FlatCount(v, {"LoopEnd"}) - n

-----------------------------------------------------------------------------
(* C10: cell arithmetic is modulo 256 and never faults: n `+` on a zero    *)
(* cell and then `.` write the one byte n mod 256, n `-` and then `.` the  *)
(* one byte -n mod 256.                                                    *)
C10_Wraparound ==
    LET n == Len(src) - 1 IN
    /\ (impl = "main" /\ src = Run("+", n) \o <<".">>) =>
          /\ ev.status \in {"idle", "running", "done"}
          /\ ev.status = "done" => ev.out = <<n % ByteMod>>
    /\ (impl = "main" /\ src = Run("-", n) \o <<".">>) =>
          /\ ev.status \in {"idle", "running", "done"}
          /\ ev.status = "done" => ev.out = <<(ByteMod - (n % ByteMod)) % ByteMod>>

\* 256 `+` and `.` have run to the end and written the byte 0.
C10_Witness ==
    /\ impl = "main" /\ src = Run("+", ByteMod) \o <<".">>
    /\ ev.status = "done" /\ ev.out = <<0>>

-----------------------------------------------------------------------------
(* Input and output of a run.                                              *)

\* main.rs:167-169 when stdout refuses the byte: the turn of eval's loop that
\* ends in Err.
EvalSinkFails ==
    /\ impl = "main" /\ stage = "eval" /\ ~Halted(ev)
    /\ AtWrite(bf, ev)
    /\ ev' = eval_Write_err(ev)
    /\ UNCHANGED <<impl, src, input, overflow_checks, stage, bf, lexer, err, hist, ref>>

\* main with a sink that may fail, on sources that read and write.
InitIO == InitWith({"main"}, SeqsUpTo(IOChars, MaxIOLen))

NextIO ==
    \/ Parse
    \/ Cancel
    \/ Clearloop
    \/ Eval
    \/ EvalSinkFails

SpecIO == InitIO /\ [][NextIO]_vars

\* The next instruction of the run is a Read.
AtRead(prog, e) ==
    /\ 0 <= e.pc /\ e.pc < Len(prog)
    /\ prog[e.pc + 1].op = "Read"

\* A turn of the evaluator's loop on a Write with the pointer on the tape:
\* either the cell's value is appended to the output and the run goes on, or
\* nothing is appended and the run has ended in an I/O error at that Write.
WriteTurn(e, f) ==
    \/ /\ f.out = Append(e.out, e.tape[e.ptr])
       /\ f.status = "running" /\ f.pc = e.pc + 1
    \/ /\ f.out = e.out
       /\ f.status = "io_error" /\ f.pc = e.pc

\* C11: every executed Write appends exactly the current cell's value to the
\* output and no other instruction touches the output, so the output is the
\* sequence of cell values at the executed Writes, in order; a Write the sink
\* refuses ends the run in an I/O error with nothing appended.  `+++.` run to
\* its end has emitted the byte 3, and `,.` on the input byte 65 the byte 65.
C11_OutputIsWrites ==
    /\ [][ev' # ev =>
            IF AtWrite(bf, ev) /\ ev.ptr \in 0..(TapeLen - 1)
            THEN WriteTurn(ev, ev')
            ELSE ev'.out = ev.out]_vars
    /\ [](ev.status = "done" =>
            /\ src = <<"+", "+", "+", ".">> => ev.out = <<3>>
            /\ (src = <<",", ".">> /\ input = <<65>>) => ev.out = <<65>>)

\* A run that wrote the cell's value 1 and was then refused its next byte.
C11_Witness ==
    /\ stage = "eval" /\ ev.status = "io_error"
    /\ AtWrite(bf, ev) /\ ev.out = <<1>> /\ ev.pc = Len(bf) - 1

\* C12: a Read with no input byte left ends the run there in an I/O error with
\* everything else as it was, and a run that has ended takes no further turn;
\* a Read with a byte left consumes exactly that byte and stores it in the
\* current cell; no other instruction consumes input.
C12_ReadConsumes ==
    [][ev' # ev =>
        /\ ev.status # "io_error"
        /\ IF AtRead(bf, ev)
           THEN IF ev.nread >= Len(input)
                THEN ev' = [ev EXCEPT !.status = "io_error"]
                ELSE /\ ev'.nread = ev.nread + 1
                     /\ ev'.out = ev.out
                     /\ ev.ptr \in 0..(TapeLen - 1) =>
                           ev'.tape = [ev.tape EXCEPT ![ev.ptr] = input[ev.nread + 1]]
           ELSE ev'.nread = ev.nread]_vars

\* A run stopped at a Read at the end of the input, after it wrote a byte and
\* with a Write still ahead of it.
C12_Witness ==
    /\ stage = "eval" /\ ev.status = "io_error"
    /\ AtRead(bf, ev) /\ ev.nread = Len(input)
    /\ Len(ev.out) = 1 /\ ev.pc + 1 < Len(bf) /\ bf[ev.pc + 2].op = "Write"

-----------------------------------------------------------------------------
(* The pointer and the ends of the tape.                                   *)

\* main on a run of `>` followed by a few moves, increments and writes.
InitPtr ==
    InitWith({"main"},
             {Run(">", n) \o t : n \in 0..MaxPtrRun, t \in SeqsUpTo(PtrTailChars, MaxPtrTail)})

NextPtr ==
    \/ Parse
    \/ Cancel
    \/ Clearloop
    \/ Eval

SpecPtr == InitPtr /\ [][NextPtr]_vars

OnTape(e) == e.ptr \in 0..(TapeLen - 1)

\* The instructions that index the tape with the pointer.
CellOps == {"IncVal", "DecVal", "ClearVal", "Write", "Read", "LoopOpen", "LoopEnd"}

\* C13 as stated: while evaluation continues the pointer is a cell of the
\* tape, a move off the tape having stopped the run at the move.
C13_PointerInRange == ev.status = "running" => OnTape(ev)

\* C13 as amended: a move never looks at the tape, so IncPtr always goes on
\* with the pointer one higher, also from cell 63, and DecPtr goes on with the
\* pointer one lower, except at 0 in a build with overflow checks, where it
\* panics; an instruction that uses the current cell while the pointer is off
\* the tape panics; and a run panics in no other turn.
C13_FaultAtAccess ==
    [][(ev' # ev /\ 0 <= ev.pc /\ ev.pc < Len(bf)) =>
        LET op == bf[ev.pc + 1].op
            underflow == op = "DecPtr" /\ ev.ptr = 0 /\ overflow_checks
            offtape == op \in CellOps /\ ~OnTape(ev)
                       /\ (op = "Read" => ev.nread < Len(input))
        IN  /\ ev'.status = "panic" <=> (underflow \/ offtape)
            /\ op = "IncPtr" => ev'.ptr = ev.ptr + 1 /\ ev'.status = "running"
            /\ (op = "DecPtr" /\ ~underflow) =>
                  ev'.ptr = ev.ptr - 1 /\ ev'.status = "running"
            /\ ev'.tape # ev.tape => OnTape(ev)]_vars

\* A run that goes on with the pointer one past the last cell, after IncPtr
\* at cell 63.
C13_Witness ==
    /\ stage = "eval" /\ ev.status = "running"
    /\ ev.ptr = TapeLen /\ ev.pc = TapeLen /\ bf[TapeLen].op = "IncPtr"

-----------------------------------------------------------------------------
(* Clear loops.                                                            *)

\* The sources of the clear-loop specification: cell 0 set to 1, the pointer
\* moved to cell 1, cell 1 read from the input, the loop, and cell 0 written;
\* and `+[-].`.
ClearSources ==
    { <<"+", ">", ",", "[", "-", "]", "<", ".">>,
      <<"+", ">", ",", "[", "+", "]", "<", ".">>,
      <<"+", "[", "-", "]", ".">> }

\* main on a clear loop entered with any byte in the current cell.
InitClear ==
    /\ impl = "main"
    /\ src \in ClearSources
    /\ input \in {<<>>} \cup {<<v>> : v \in 0..(ByteMod - 1)}
    /\ Len(input) = CountIn(src, Len(src), {","})
    /\ overflow_checks \in BOOLEAN
    /\ stage = "start"
    /\ bf = <<>>
    /\ lexer = Lexer_new
    /\ err = NoError
    /\ hist = <<>>
    /\ ev = eval_new
    /\ ref = eval_new

\* main is one thread that takes its next step whenever it has one.
SpecClear == InitClear /\ [][NextEquiv]_vars /\ WF_vars(NextEquiv)

\* The index (from 1) of the LoopOpen of a program with one loop; the turns of
\* the loop are those at pc LoopAt - 1 (LoopOpen), LoopAt (the body) and
\* LoopAt + 1 (LoopEnd).
LoopAt(prog) == CHOOSE k \in 1..Len(prog) : prog[k].op = "LoopOpen"

\* The cell the loop of a source of ClearSources works on.
LoopCell == IF Contains(src, ">") THEN 1 ELSE 0

\* How many more times the body op has to run to bring the byte x to 0.
Dist(x, op) == IF op = "DecVal" THEN x ELSE (ByteMod - x) % ByteMod

\* A turn of the run e -> f of prog inside its loop: only the current cell
\* changes, the body brings it one step nearer to 0 from a value that is not
\* 0, and the loop is left, for the instruction after LoopEnd, exactly with
\* the cell at 0.
ClearLoopTurn(prog, e, f) ==
    LET k == LoopAt(prog)
        body == prog[k + 1].op
    IN  /\ f.status = "running"
        /\ f.ptr = e.ptr /\ f.out = e.out /\ f.nread = e.nread
        /\ \A c \in 0..(TapeLen - 1) : c # e.ptr => f.tape[c] = e.tape[c]
        /\ IF e.pc = k
           THEN /\ Dist(e.tape[e.ptr], body) \in 1..(ByteMod - 1)
                /\ Dist(f.tape[f.ptr], body) = Dist(e.tape[e.ptr], body) - 1
                /\ f.pc = k + 1
           ELSE /\ f.tape = e.tape
                /\ f.pc = IF e.tape[e.ptr] = 0 THEN k + 2 ELSE k

\* C14: run as parsed, a loop whose body is one IncVal or one DecVal changes
\* nothing but the current cell, takes the cell one step nearer to 0 in every
\* turn of its body (at most 255 turns from any byte) and is left with the
\* cell at 0; the whole run ends, and ends in the state (tape, pointer, bytes
\* read, output) in which the run of the optimized program, where clearloop
\* has put ClearVal for the loop, ends; `+[-].` writes the single byte 0.
C14_ClearLoop ==
    /\ [][(stage = "parsed" /\ ref' # ref
           /\ ref.pc \in (LoopAt(bf) - 1)..(LoopAt(bf) + 1)) =>
              ClearLoopTurn(bf, ref, ref')]_vars
    /\ []((stage = "eval" /\ Halted(ev)) =>
            /\ ev.status = "done" /\ ref.status = "done"
            /\ FlatCount(bf, {"ClearVal"}) = 1
            /\ FlatCount(bf, {"LoopOpen", "LoopEnd"}) = 0
            /\ ev.tape = ref.tape /\ ev.ptr = ref.ptr
            /\ ev.nread = ref.nread /\ ev.out = ref.out
            /\ ev.tape[LoopCell] = 0
            /\ ev.out = IF src = <<"+", "[", "-", "]", ".">> THEN <<0>> ELSE <<1>>)
    /\ <>(stage = "eval" /\ Halted(ev))

\* The run of `+>,[+]<.` as parsed, on the input byte 1, just out of its loop
\* after 255 turns, with cell 1 at 0 and cell 0 still at 1.
C14_Witness ==
    /\ stage = "parsed" /\ ref.status = "running"
    /\ src[5] = "+" /\ input = <<1>>
    /\ ref.pc = LoopAt(bf) + 2
    /\ ref.ptr = 1 /\ ref.tape[1] = 0 /\ ref.tape[0] = 1

-----------------------------------------------------------------------------
(* Loops of the program as parsed.                                         *)

\* LoopOpens less LoopEnds among v[a..b].
Bal(v, a, b) ==
    Cardinality({j \in a..b : v[j].op = "LoopOpen"})
    - Cardinality({j \in a..b : v[j].op = "LoopEnd"})

\* The index (from 1) of the LoopEnd that closes the LoopOpen at index k, and
\* of the LoopOpen that the LoopEnd at index k closes, by bracket matching.
MatchEnd(v, k) ==
    Least({m \in (k + 1)..Len(v) : v[m].op = "LoopEnd" /\ Bal(v, k, m) = 0})

MatchOpen(v, k) ==
    CHOOSE m \in 1..(k - 1) : v[m].op = "LoopOpen" /\ MatchEnd(v, m) = k

-----------------------------------------------------------------------------
(* What cancel leaves.                                                     *)

RECURSIVE PairFree(_)
\* No two adjacent instructions of v, or of the body of a Loop of v at any
\* depth, are an inverse pair.
PairFree(v) ==
    /\ \A k \in 1..(Len(v) - 1) : ~InversePair(v[k].op, v[k + 1].op)
    /\ \A k \in 1..Len(v) : v[k].op = "Loop" => PairFree(v[k].body)

\* Sources that are one chain of nested inverse pairs.
ChainSources == {<<"+", "+", "-", "-">>, <<"+", ">", "<", "-">>}

\* C16: after cancel has returned no two adjacent instructions are an inverse
\* pair, at the top level or in any loop body at any depth, and a chain such
\* as `++--` or `+><-` is cancelled to nothing by the one run.
C16_NoPairsAfterCancel ==
    impl = "tree" =>
        \A k \in 1..Len(hist) :
            hist[k].pass = "cancel" =>
                /\ hist[k].ok => PairFree(hist[k].bf)
                /\ (k = 1 /\ src \in ChainSources) => (hist[k].ok /\ hist[k].bf = <<>>)

\* Where cancel returns, what it returns has no inverse pair left.
PairFreeWhereCancelReturns ==
    impl = "tree" =>
        \A k \in 1..Len(hist) :
            (hist[k].pass = "cancel" /\ hist[k].ok) => PairFree(hist[k].bf)

\* Sources that are one loop whose body cancels down to one IncVal or DecVal.
ClearableSources ==
    { <<"[", "+", "-", "+", "]">>, <<"[", ">", "<", "-", "]">>,
      <<"[", "-", "<", ">", "]">> }

\* C17: on a loop whose body cancels down to a single IncVal or DecVal, cancel
\* returns the loop with that one-instruction body and clearloop, run next,
\* leaves the single instruction ClearVal.
C17_CancelThenClearloop ==
    (impl = "tree" /\ src \in ClearableSources
     /\ hist # <<>> /\ hist[1].pass = "cancel") =>
        /\ hist[1].ok
        /\ Len(hist[1].bf) = 1 /\ ClearBody(hist[1].bf[1].body)
        /\ (Len(hist) >= 2 /\ hist[2].pass = "clearloop") =>
              hist[2].bf = <<Leaf("ClearVal")>>

\* C19: every run of cancel returns: none ends in an index out of range or in
\* an arithmetic underflow, whatever the tree.
C19_CancelNeverFaults ==
    impl = "tree" => \A k \in 1..Len(hist) : hist[k].pass = "cancel" => hist[k].ok

-----------------------------------------------------------------------------
(* What cancel keeps.                                                      *)

\* The two cancel passes, each after its parser.
InitCancel == InitWith({"main", "tree"}, SeqsUpTo(EquivChars, MaxCancelLen))

NextCancel ==
    \/ ParserParse
    \/ OptCancel
    \/ OptClearloop
    \/ Parse
    \/ Cancel

SpecCancel == InitCancel /\ [][NextCancel]_vars

\* The instructions cancel matches on.
Moves == {"IncPtr", "DecPtr", "IncVal", "DecVal"}

NotMove(i) == i.op \notin Moves

\* Instructions of the sequence v with op up, less those with op down.
Net(v, up, down) ==
    Cardinality({k \in 1..Len(v) : v[k].op = up})
    - Cardinality({k \in 1..Len(v) : v[k].op = down})

RECURSIVE Frame(_, _)
\* w keeps what is not a move of v: the instructions of v other than the four
\* moves are those of w, in the same order, a Loop for a Loop with the same
\* holding of the two bodies; w is shorter by an even number of instructions
\* and has the net pointer movement and the net value change of v.
Frame(v, w) ==
    LET kv == SelectSeq(v, NotMove)
        kw == SelectSeq(w, NotMove)
    IN  /\ Len(kw) = Len(kv)
        /\ \A j \in 1..Len(kv) :
              IF kv[j].op = "Loop"
              THEN kw[j].op = "Loop" /\ Frame(kv[j].body, kw[j].body)
              ELSE kw[j] = kv[j]
        /\ Len(w) <= Len(v) /\ (Len(v) - Len(w)) % 2 = 0
        /\ Net(w, "IncPtr", "DecPtr") = Net(v, "IncPtr", "DecPtr")
        /\ Net(w, "IncVal", "DecVal") = Net(v, "IncVal", "DecVal")

\* C18: what a run of cancel returns holds every Loop, Write, Read and
\* ClearVal of what it was given (LoopOpen and LoopEnd in the flat program),
\* in the same order and at the same depth, and in every sequence the same
\* IncPtr less DecPtr and the same IncVal less DecVal.
C18_CancelFrame ==
    \A k \in 1..Len(hist) :
        (hist[k].pass = "cancel" /\ hist[k].ok) => Frame(hist[k].before, hist[k].bf)

\* A run of the tree cancel that removed a pair from a sequence holding a Loop
\* and a Write.
C18_Witness ==
    /\ impl = "tree" /\ hist # <<>>
    /\ hist[1].pass = "cancel" /\ hist[1].ok
    /\ Len(hist[1].bf) < Len(hist[1].before)
    /\ \E j \in 1..Len(hist[1].bf) : hist[1].bf[j].op = "Loop"
    /\ \E j \in 1..Len(hist[1].bf) : hist[1].bf[j].op = "Write"

-----------------------------------------------------------------------------
(* Jump targets of the flat program.                                       *)

\* C20: in the program main.rs parse returns, an index o (from 0) that holds
\* LoopOpen(e) has o < e within the program and LoopEnd(o) at index e, and an
\* index e that holds LoopEnd(o) has o < e and LoopOpen(e) at index o; so no
\* LoopOpen is left with the placeholder target 0.
C20_TargetsConsistent ==
    (impl = "main" /\ stage = "parsed") =>
        \A k \in 1..Len(bf) :
            LET t == bf[k].target IN
            /\ bf[k].op = "LoopOpen" =>
                  /\ k - 1 < t /\ t < Len(bf)
                  /\ bf[t + 1] = LoopEnd(k - 1)
            /\ bf[k].op = "LoopEnd" =>
                  /\ 0 <= t /\ t < k - 1
                  /\ bf[t + 1] = LoopOpen(k - 1)

\* `[[+]]` parsed: the outer loop spans indices 0..4 and the inner one 1..3.
C20_Witness ==
    /\ impl = "main" /\ stage = "parsed"
    /\ src = <<"[", "[", "+", "]", "]">>
    /\ bf[1] = LoopOpen(4) /\ bf[2] = LoopOpen(3)
    /\ bf[4] = LoopEnd(1) /\ bf[5] = LoopEnd(0)

====
